---- MODULE Spec2Model ----
(***************************************************************************)
(* Virtual hosts handler of pandora-web-server                             *)
(* (virtual-hosts-module/src/handler.rs).                                  *)
(*                                                                         *)
(* A configuration is compiled by try_from into a routing table.  One      *)
(* request at a time is then taken through the phases request_filter,      *)
(* upstream_peer, response_filter and logging.  Strings that are parsed    *)
(* (paths, queries) are sequences of one-character strings; Option values  *)
(* are sequences of length at most one.                                    *)
(***************************************************************************)
EXTENDS Naturals, Sequences, FiniteSets, TLC

VARIABLES
    conf,       \* the VirtualHostsConf handed to try_from
    handlers,   \* Option of VirtualHostsHandler.handlers (None: try_from failed)
    pc,         \* last phase run for the request in flight
    session,    \* the request's session: host header, uri, original uri, extensions
    ctx,        \* the VirtualHostsCtx that request_filter was called with
    result,     \* Option of the value request_filter returned
    peer,       \* Option of the value upstream_peer returned
    response,   \* names of the handlers that shaped the response header
    calls,      \* downstream handler invocations of this request, in order
    arg,        \* which context the last phase was called with
    error,      \* Option of the error try_from returned
    inflight,   \* the requests in flight at once, each with its own session and context
    chain,      \* a handler derived from a list of handlers, and its run
    pair        \* two VirtualHostsHandler instances run on one session

vars == <<conf, handlers, pc, session, ctx, result, peer, response, calls, arg,
          error, inflight, chain, pair>>

\* What the phases of the single request in flight leave alone.
others == <<error, inflight, chain, pair>>

-----------------------------------------------------------------------------
(* Option values *)

None == <<>>

Some(v) == <<v>>

IsSome(o) == Len(o) = 1

Unwrap(o) == o[1]

-----------------------------------------------------------------------------
(* Bounds *)

\* Longest generated request path, in characters.
MaxPathLen == 3

-----------------------------------------------------------------------------
(* Strings *)

SEPARATOR == "/"

PathChars == {"/", "s", "f", "x"}

RECURSIVE StartsWith(_, _)
StartsWith(s, p) ==
    IF p = <<>> THEN TRUE
    ELSE IF s = <<>> THEN FALSE
    ELSE Head(s) = Head(p) /\ StartsWith(Tail(s), Tail(p))

Drop(s, n) == SubSeq(s, n + 1, Len(s))

RECURSIVE SkipSeparators(_)
SkipSeparators(s) ==
    IF s # <<>> /\ Head(s) = SEPARATOR THEN SkipSeparators(Tail(s)) ELSE s

\* The leading run of non-separator characters of s.
RECURSIVE TakeSegment(_)
TakeSegment(s) ==
    IF s = <<>> \/ Head(s) = SEPARATOR THEN <<>>
    ELSE <<Head(s)>> \o TakeSegment(Tail(s))

\* The non-empty segments of a path: separators in any number only delimit.
RECURSIVE Segments(_)
Segments(s) ==
    LET t == SkipSeparators(s) IN
    IF t = <<>> THEN <<>>
    ELSE LET seg == TakeSegment(t) IN <<seg>> \o Segments(Drop(t, Len(seg)))

IsPrefixSeq(p, s) == Len(p) <= Len(s) /\ SubSeq(s, 1, Len(p)) = p

-----------------------------------------------------------------------------
(* pandora_module_utils::router: Path and Router *)

\* Path::new: a path normalised to its segments.
PathNew(path) == Segments(path)

\* Path::remove_prefix_from: the raw remainder of path after the segments of
\* prefix, "/" when nothing remains, None when path does not start with them.
RECURSIVE remove_prefix_from(_, _)
remove_prefix_from(prefix, path) ==
    IF prefix = <<>>
    THEN Some(IF path = <<>> THEN <<SEPARATOR>> ELSE path)
    ELSE LET t == SkipSeparators(path)
             rest == Drop(t, Len(Head(prefix)))
         IN IF /\ StartsWith(t, Head(prefix))
               /\ (rest = <<>> \/ Head(rest) = SEPARATOR)
            THEN remove_prefix_from(Tail(prefix), rest)
            ELSE None

\* Router::builder
RouterBuilder == <<>>

\* RouterBuilder::push: entries are kept in call order.
RouterPush(builder, host, path, value, value_prefix) ==
    Append(builder, [host |-> host, path |-> PathNew(path),
                     value |-> value, prefix |-> value_prefix])

\* RouterBuilder::build: an entry's index is its zero-based push position.
RouterBuild(builder) == builder

\* The entries of one host that apply to the segments segs: an entry applies
\* to its own path, and to longer paths when it has a prefix value.
Applicable(table, host, segs) ==
    {i \in 1..Len(table) :
        /\ table[i].host = host
        /\ IsPrefixSeq(table[i].path, segs)
        /\ (table[i].path = segs \/ IsSome(table[i].prefix))}

\* The longest applicable entry; among entries of one key the last pushed.
BestEntry(table, cand) ==
    CHOOSE i \in cand :
        \A j \in cand :
            \/ Len(table[j].path) < Len(table[i].path)
            \/ (Len(table[j].path) = Len(table[i].path) /\ j <= i)

LookupHost(table, host, segs) ==
    LET cand == Applicable(table, host, segs) IN
    IF cand = {} THEN None
    ELSE LET i == BestEntry(table, cand) IN
         Some([index |-> i - 1,
               value |-> IF table[i].path = segs THEN table[i].value
                         ELSE Unwrap(table[i].prefix)])

\* Router::lookup: the host's own entries first, the entries of the empty
\* host name when the host has no match.
RouterLookup(table, host, path) ==
    LET segs == Segments(path)
        own == LookupHost(table, host, segs)
    IN IF IsSome(own) THEN own ELSE LookupHost(table, "", segs)

\* Router::retrieve
RouterRetrieve(table, index) ==
    IF index < Len(table) THEN Some(table[index + 1].value) ELSE None

-----------------------------------------------------------------------------
(* Downstream handlers and their configurations *)

\* What a handler's request_filter returns; "Error" stands for Err(..).
Results == {"Unhandled", "Handled", "ResponseSent", "Error"}

\* A handler configuration: the handler it converts to, or a failing one.
HandlerConf(name, res) == [name |-> name, result |-> res, ok |-> TRUE]

\* A handler configuration whose conversion fails with the error name.
FailingConf(name) == [name |-> name, result |-> "Unhandled", ok |-> FALSE]

\* TryInto<H> for a handler configuration.
TryInto(c) ==
    IF c.ok
    THEN [ok |-> TRUE, value |-> [name |-> c.name, result |-> c.result]]
    ELSE [ok |-> FALSE, error |-> c.name]

-----------------------------------------------------------------------------
(* Compilation: TryFrom<VirtualHostsConf<C>> for VirtualHostsHandler<H> *)

\* Every host name of the model, in the order of a BTreeSet<String>.
HostOrder == <<"", "127.0.0.1", "example.com", "example.info", "localhost">>

SeqToSet(q) == {q[i] : i \in 1..Len(q)}

\* RetainNonEmpty with the empty names kept.
RetainNonEmpty_all(hosts) == hosts

\* hosts.retain(|host| !host.is_empty())
RetainNonEmpty(hosts) == SelectSeq(hosts, LAMBDA h : h # "")

\* Names without the empty name of the default virtual host.
Names_no_default(hosts, registers_default) ==
    SelectSeq(HostOrder, LAMBDA h : h \in SeqToSet(RetainNonEmpty(hosts)))

\* The names of one virtual host, in iteration order of the BTreeSet.
Names(hosts, registers_default) ==
    LET set == (IF registers_default THEN {""} ELSE {})
                   \cup SeqToSet(RetainNonEmpty(hosts))
    IN SelectSeq(HostOrder, LAMBDA h : h \in set)

\* SortByExact with the sort left out.
SortByExact_unsorted(subpaths) == subpaths

\* SortByExact by an unstable sort: the prefix rules come out reversed.
SortByExact_unstable(subpaths) ==
    LET prefixes == SelectSeq(subpaths, LAMBDA sp : ~sp.rule.exact) IN
    [k \in 1..Len(prefixes) |-> prefixes[Len(prefixes) + 1 - k]]
        \o SelectSeq(subpaths, LAMBDA sp : sp.rule.exact)

\* subpaths.sort_by_key(|(rule, _)| rule.exact): a stable sort, false first.
SortByExact(subpaths) ==
    SelectSeq(subpaths, LAMBDA sp : ~sp.rule.exact)
        \o SelectSeq(subpaths, LAMBDA sp : sp.rule.exact)

\* PushRoot with the root entry answering for the root path only.
RECURSIVE PushRoot_root_only(_, _, _)
PushRoot_root_only(builder, names, handler) ==
    IF names = <<>> THEN builder
    ELSE PushRoot_root_only(
             RouterPush(builder, Head(names), <<>>,
                        [strip |-> None, handler |-> handler], None),
             Tail(names), handler)

\* PushRoot with another handler in the payload for the paths below.
RECURSIVE PushRoot_other_below(_, _, _)
PushRoot_other_below(builder, names, handler) ==
    IF names = <<>> THEN builder
    ELSE PushRoot_other_below(
             RouterPush(builder, Head(names), <<>>,
                        [strip |-> None, handler |-> handler],
                        Some([strip |-> None,
                              handler |-> [name |-> "below",
                                           result |-> handler.result]])),
             Tail(names), handler)

\* for host in &names { handlers.push(host, "", (None, handler), Some(..)) }
RECURSIVE PushRoot(_, _, _)
PushRoot(builder, names, handler) ==
    IF names = <<>> THEN builder
    ELSE PushRoot(RouterPush(builder, Head(names), <<>>,
                             [strip |-> None, handler |-> handler],
                             Some([strip |-> None, handler |-> handler])),
                  Tail(names), handler)

\* The strip_path of a sub-path rule.
StripPath(rule, sp) ==
    IF sp.strip_prefix THEN Some(PathNew(rule.path)) ELSE None

\* PushRule with the rule pushed for the first name only.
PushRule_first_only(builder, names, rule, strip_path, handler) ==
    IF names = <<>> THEN builder
    ELSE RouterPush(builder, Head(names), rule.path,
                    [strip |-> strip_path, handler |-> handler],
                    IF rule.exact THEN None
                    ELSE Some([strip |-> strip_path, handler |-> handler]))

\* for host in &names { handlers.push(host, &rule.path, .., ..) }
RECURSIVE PushRule(_, _, _, _, _)
PushRule(builder, names, rule, strip_path, handler) ==
    IF names = <<>> THEN builder
    ELSE PushRule(RouterPush(builder, Head(names), rule.path,
                             [strip |-> strip_path, handler |-> handler],
                             IF rule.exact THEN None
                             ELSE Some([strip |-> strip_path, handler |-> handler])),
                  Tail(names), rule, strip_path, handler)

\* PushSubpaths with a rule whose conversion fails left out of the table.
RECURSIVE PushSubpaths_skip(_, _, _)
PushSubpaths_skip(builder, names, subpaths) ==
    IF subpaths = <<>> THEN [ok |-> TRUE, builder |-> builder]
    ELSE LET sp == Head(subpaths)
             handler == TryInto(sp.config)
         IN IF ~handler.ok THEN PushSubpaths_skip(builder, names, Tail(subpaths))
            ELSE PushSubpaths_skip(
                     PushRule(builder, names, sp.rule,
                              StripPath(sp.rule, sp), handler.value),
                     names, Tail(subpaths))

\* for (rule, conf) in subpaths { .. }: stops at the first failing conversion.
RECURSIVE PushSubpaths(_, _, _)
PushSubpaths(builder, names, subpaths) ==
    IF subpaths = <<>> THEN [ok |-> TRUE, builder |-> builder]
    ELSE LET sp == Head(subpaths)
             handler == TryInto(sp.config)
         IN IF ~handler.ok THEN [ok |-> FALSE, error |-> handler.error]
            ELSE PushSubpaths(
                     PushRule(builder, names, sp.rule,
                              StripPath(sp.rule, sp), handler.value),
                     names, Tail(subpaths))

\* RegistersDefault with a later default virtual host replacing the earlier.
RegistersDefault_always(vh, default) == vh.default

\* if host_conf.default { if let Some(previous) = &default { warn!(..) } else
\* { .. names.insert(String::new()) } }: whether the virtual host takes the
\* empty name.
RegistersDefault(vh, default) == vh.default /\ ~IsSome(default)

\* for (mut hosts, host_conf) in conf.vhosts.into_iter() { .. }
RECURSIVE CompileHosts(_, _, _)
CompileHosts(builder, default, vhosts) ==
    IF vhosts = <<>> THEN [ok |-> TRUE, builder |-> builder]
    ELSE LET vh == Head(vhosts)
             handler == TryInto(vh.config)
             registers == RegistersDefault(vh, default)
             names == Names(vh.hosts, registers)
         IN IF ~handler.ok THEN [ok |-> FALSE, error |-> handler.error]
            ELSE LET subs == PushSubpaths(PushRoot(builder, names, handler.value),
                                          names, SortByExact(vh.subpaths))
                 IN IF ~subs.ok THEN subs
                    ELSE CompileHosts(subs.builder,
                                      IF registers THEN Some(vh.hosts) ELSE default,
                                      Tail(vhosts))

try_from(c) ==
    LET built == CompileHosts(RouterBuilder, None, c.vhosts) IN
    IF built.ok
    THEN [ok |-> TRUE, handlers |-> RouterBuild(built.builder)]
    ELSE [ok |-> FALSE, error |-> built.error]

-----------------------------------------------------------------------------
(* Configurations *)

\* "/subdir/*": strip_prefix: true, result: Unhandled
SubdirRule ==
    [rule |-> [path |-> <<"/", "s">>, exact |-> FALSE], strip_prefix |-> TRUE,
     config |-> HandlerConf("subdir", "Unhandled")]

\* "/subdir/file.txt": result: ResponseSent
FileRule ==
    [rule |-> [path |-> <<"/", "s", "/", "f">>, exact |-> TRUE],
     strip_prefix |-> FALSE, config |-> HandlerConf("file", "ResponseSent")]

\* "/subdir/subsub/*": result: Handled
SubsubRule ==
    [rule |-> [path |-> <<"/", "s", "/", "b">>, exact |-> FALSE],
     strip_prefix |-> FALSE, config |-> HandlerConf("subsub", "Handled")]

\* "/subdir/subsub": an exact rule on the path of the prefix rule above
SubsubExactRule ==
    [rule |-> [path |-> <<"/", "s", "/", "b">>, exact |-> TRUE],
     strip_prefix |-> FALSE, config |-> HandlerConf("subsub_exact", "Unhandled")]

\* The orders in which the sub-path map may be iterated.
SubpathOrders ==
    {<<SubdirRule, FileRule, SubsubRule>>, <<FileRule, SubsubRule, SubdirRule>>}

\* The same with the exact rule on /subdir/subsub, iterated first or last.
CollidingOrders ==
    {<<SubsubExactRule, SubdirRule, FileRule, SubsubRule>>,
     <<SubsubRule, FileRule, SubdirRule, SubsubExactRule>>}

\* [localhost:8080, 127.0.0.1:8080]: default: {add_default}, result: ResponseSent
LocalHost(add_default, subpaths) ==
    [hosts |-> <<"localhost", "127.0.0.1">>, default |-> add_default,
     config |-> HandlerConf("local", "ResponseSent"), subpaths |-> subpaths]

\* example.com: result: Handled
ExampleCom ==
    [hosts |-> <<"example.com">>, default |-> FALSE,
     config |-> HandlerConf("com", "Handled"), subpaths |-> <<>>]

\* example.info: a handler whose request_filter fails
ExampleInfo ==
    [hosts |-> <<"example.info">>, default |-> FALSE,
     config |-> HandlerConf("info", "Error"), subpaths |-> <<>>]

\* The configuration of the tests' handler(add_default), in the orders in
\* which its maps may be iterated.
TestConfs ==
    {[vhosts |-> <<LocalHost(d, subs), ExampleCom, ExampleInfo>>] :
        d \in BOOLEAN, subs \in SubpathOrders}
    \cup {[vhosts |-> <<ExampleInfo, ExampleCom, LocalHost(d, subs)>>] :
        d \in BOOLEAN, subs \in SubpathOrders}

\* The tests' configuration with an exact and a prefix rule on one path.
CollidingConfs ==
    {[vhosts |-> <<LocalHost(TRUE, subs), ExampleCom, ExampleInfo>>] :
        subs \in CollidingOrders}

Configs == TestConfs \cup CollidingConfs

\* "/xyz/*": a rule of example.com's own
XyzRule ==
    [rule |-> [path |-> <<"/", "x">>, exact |-> FALSE], strip_prefix |-> FALSE,
     config |-> HandlerConf("com_xyz", "ResponseSent")]

\* example.com marked default as well, with a rule of its own
ExampleComDefault ==
    [hosts |-> <<"example.com">>, default |-> TRUE,
     config |-> HandlerConf("com", "Handled"), subpaths |-> <<XyzRule>>]

\* Two virtual hosts marked default, iterated in either order.
TwoDefaultConfs ==
    {[vhosts |-> <<LocalHost(TRUE, <<SubdirRule, FileRule, SubsubRule>>),
                   ExampleComDefault, ExampleInfo>>],
     [vhosts |-> <<ExampleComDefault, ExampleInfo,
                   LocalHost(TRUE, <<SubdirRule, FileRule, SubsubRule>>)>>]}

\* "/xyz": an exact rule whose handler configuration cannot be converted
BrokenRule ==
    [rule |-> [path |-> <<"/", "x">>, exact |-> TRUE], strip_prefix |-> FALSE,
     config |-> FailingConf("broken_rule")]

\* example.com with a handler configuration that cannot be converted
ExampleBroken ==
    [hosts |-> <<"example.com">>, default |-> FALSE,
     config |-> FailingConf("broken_host"), subpaths |-> <<>>]

\* Configurations with a conversion that fails: of a sub-path after the
\* root and two rules of its host were pushed, of a virtual host after
\* another one was pushed, of the first virtual host.
FailingConfs ==
    {[vhosts |-> <<LocalHost(TRUE, <<BrokenRule, SubdirRule, SubsubRule>>),
                   ExampleCom, ExampleInfo>>],
     [vhosts |-> <<LocalHost(TRUE, <<SubdirRule, FileRule, SubsubRule>>),
                   ExampleBroken, ExampleInfo>>],
     [vhosts |-> <<ExampleBroken, ExampleInfo,
                   LocalHost(FALSE, <<SubdirRule, BrokenRule>>)>>]}

\* "/subdir/file.txt": an exact rule with strip_prefix: true
FileStripRule ==
    [rule |-> [path |-> <<"/", "s", "/", "f">>, exact |-> TRUE],
     strip_prefix |-> TRUE, config |-> HandlerConf("file_strip", "ResponseSent")]

\* The tests' configuration with strip_prefix set on its exact rule, which
\* the sub-path map iterates first.
ExactStripConfs ==
    {[vhosts |-> <<LocalHost(FALSE, <<FileStripRule, SubsubRule, SubdirRule>>),
                   ExampleCom, ExampleInfo>>]}

\* example.com listing an empty host name as well, not marked default
ExampleEmpty ==
    [hosts |-> <<"", "example.com">>, default |-> FALSE,
     config |-> HandlerConf("com", "Handled"), subpaths |-> <<>>]

\* The tests' configuration with an empty host name listed by example.com,
\* without a default virtual host and with localhost as the default one.
EmptyNameConfs ==
    {[vhosts |-> <<ExampleEmpty,
                   LocalHost(d, <<SubdirRule, FileRule, SubsubRule>>),
                   ExampleInfo>>] : d \in BOOLEAN}

\* The configurations that exercise the host names.
HostConfs == EmptyNameConfs

\* The configurations that exercise the compilation.
CompileConfs == TwoDefaultConfs \cup FailingConfs \cup ExactStripConfs

-----------------------------------------------------------------------------
(* Requests *)

\* Request paths: every path of at most MaxPathLen characters, and the longer
\* paths of the tests.
GeneratedPaths ==
    UNION {{p \in [1..n -> PathChars] : p[1] = SEPARATOR} : n \in 1..MaxPathLen}

TestPaths ==
    {<<"/", "s", "/", "x">>,                          \* /subdir/xyz
     <<"/", "/", "s", "/", "/", "/", "x", "/", "/">>, \* //subdir///xyz//
     <<"/", "s", "/", "f">>,                          \* /subdir/file.txt
     <<"/", "s", "/", "f", "/">>,                     \* /subdir/file.txt/
     <<"/", "s", "/", "f", "/", "x">>,                \* /subdir/file.txt/xyz
     <<"/", "s", "/", "b">>,                          \* /subdir/subsub
     <<"/", "s", "/", "b", "/", "x">>}                \* /subdir/subsub/xyz

RequestPaths == GeneratedPaths \cup TestPaths

\* ?abc, or no query
Queries == {None, Some(<<"a">>)}

\* The Host header and the URI authority of a request.
HostInputs ==
    {[header |-> Some(h), authority |-> None] :
        h \in {"localhost", "127.0.0.1", "example.com", "example.info", "unknown"}}
    \cup {[header |-> None, authority |-> a] :
        a \in {None, Some("example.com"), Some("127.0.0.1")}}
    \cup {[header |-> Some("example.com"), authority |-> Some("localhost")]}

-----------------------------------------------------------------------------
(* http::Uri and the session *)

QUERY_MARK == "?"

RECURSIVE BeforeMark(_)
BeforeMark(str) ==
    IF str = <<>> \/ Head(str) = QUERY_MARK THEN <<>>
    ELSE <<Head(str)>> \o BeforeMark(Tail(str))

\* str.parse::<PathAndQuery>(): the query is what follows the first "?".
ParsePathAndQuery(str) ==
    LET path == BeforeMark(str) IN
    Some([path |-> path,
          query |-> IF Len(path) = Len(str) THEN None
                    ELSE Some(Drop(str, Len(path) + 1))])

MakeUri(authority, path, query) ==
    [authority |-> authority, path |-> path, query |-> query]

\* make_session(uri, host)
MakeSession(header, uri) ==
    [header_host |-> header, uri |-> uri, original_uri |-> uri,
     extensions |-> None]

\* SessionWrapper::host: the Host header, else the authority of the URI.
SessionHost(s) ==
    IF IsSome(s.header_host) THEN s.header_host ELSE s.uri.authority

\* Option::unwrap_or_default of a host name
UnwrapOrDefault(o) == IF IsSome(o) THEN Unwrap(o) ELSE ""

-----------------------------------------------------------------------------
(* VirtualHostsHandler *)

\* The compiled table of the handler.
Table == Unwrap(handlers)

\* set_uri_path with the query dropped.
set_uri_path_no_query(uri, path) == [uri EXCEPT !.path = path, !.query = None]

set_uri_path(uri, path) ==
    LET query == uri.query
        path_and_query ==
            IF IsSome(query) THEN path \o <<QUERY_MARK>> \o Unwrap(query)
            ELSE path
        parsed == ParsePathAndQuery(path_and_query)
    IN IF IsSome(parsed)
       THEN [uri EXCEPT !.path = Unwrap(parsed).path,
                        !.query = Unwrap(parsed).query]
       ELSE uri

new_ctx == [index |-> None]

\* as_inner repeating the lookup with the request's present path.
as_inner_relookup(c) ==
    IF IsSome(c.index)
    THEN LET found == RouterLookup(Table, UnwrapOrDefault(SessionHost(session)),
                                   session.uri.path)
         IN IF IsSome(found) THEN Some(Unwrap(found).value.handler) ELSE None
    ELSE None

\* as_inner falling back to the session's IndexEntry.
as_inner_token(c) ==
    LET index == IF IsSome(c.index) THEN c.index ELSE session.extensions
        entry == IF IsSome(index) THEN RouterRetrieve(Table, Unwrap(index))
                 ELSE None
    IN IF IsSome(entry) THEN Some(Unwrap(entry).handler) ELSE None

\* as_inner with ctx.index.unwrap_or_default() in place of ctx.index?.
as_inner_default(c) ==
    LET entry == RouterRetrieve(Table, IF IsSome(c.index) THEN Unwrap(c.index)
                                       ELSE 0)
    IN IF IsSome(entry) THEN Some(Unwrap(entry).handler) ELSE None

\* self.handlers.retrieve(ctx.index?).map(|(_, h)| h)
as_inner(c) ==
    IF IsSome(c.index)
    THEN LET entry == RouterRetrieve(Table, Unwrap(c.index)) IN
         IF IsSome(entry) THEN Some(Unwrap(entry).handler) ELSE None
    ELSE None

\* RecoveredIndex without the session's IndexEntry.
RecoveredIndex_ctx_only(s, c) ==
    IF IsSome(c) THEN Unwrap(c).index ELSE None

\* The index response_filter recovers: the context's, else the session's
\* IndexEntry.  c is the Option of the context the phase was called with.
RecoveredIndex(s, c) ==
    IF IsSome(c) /\ IsSome(Unwrap(c).index) THEN Unwrap(c).index
    ELSE s.extensions

\* The handler response_filter delegates to.
RecoveredHandler(s, c) ==
    LET index == RecoveredIndex(s, c)
        entry == IF IsSome(index) THEN RouterRetrieve(Table, Unwrap(index))
                 ELSE None
    IN IF IsSome(entry) THEN Some(Unwrap(entry).handler) ELSE None

\* A record of one call of a downstream handler.
Call(phase, handler, with_ctx) ==
    [phase |-> phase, handler |-> handler.name, with_ctx |-> with_ctx]

\* The contexts a later phase may be called with: the one request_filter was
\* called with, or a fresh one.
CtxArgs == {"same", "fresh"}

CtxOf(a) == IF a = "same" THEN ctx ELSE new_ctx

-----------------------------------------------------------------------------
(* The state machine *)

IdleSession == MakeSession(None, MakeUri(None, <<SEPARATOR>>, None))

\* The state once try_from has run on one of the configurations confs.
Compiled(confs) ==
    /\ conf \in confs
    /\ LET built == try_from(conf) IN
       /\ handlers = IF built.ok THEN Some(built.handlers) ELSE None
       /\ error = IF built.ok THEN None ELSE Some(built.error)

\* No request is in flight.
Idle ==
    /\ pc = "idle"
    /\ session = IdleSession
    /\ ctx = new_ctx
    /\ result = None
    /\ peer = None
    /\ response = <<>>
    /\ calls = <<>>
    /\ arg = "same"

\* Two instances with no request on them: the session they share, the
\* context, the result of request_filter, the token response_filter read
\* and the handler it delegated to, of each.
NoPair ==
    [shape |-> "none", pc |-> "idle", session |-> IdleSession,
     ctx |-> <<new_ctx, new_ctx>>, results |-> <<None, None>>,
     read |-> <<None, None>>, shaped |-> <<None, None>>]

\* A derived handler made of no handlers, not run.
NoChain == [handlers |-> <<>>, next |-> 1, called |-> <<>>, result |-> None]

Init ==
    /\ conf \in Configs
    /\ handlers = LET built == try_from(conf) IN
                  IF built.ok THEN Some(built.handlers) ELSE None
    /\ error = None
    /\ inflight = <<>>
    /\ chain = NoChain
    /\ pair = NoPair
    /\ pc = "idle"
    /\ session = IdleSession
    /\ ctx = new_ctx
    /\ result = None
    /\ peer = None
    /\ response = <<>>
    /\ calls = <<>>
    /\ arg = "same"

\* A request arrives: its session and a new context are created.
NewRequest ==
    /\ pc = "idle"
    /\ IsSome(handlers)
    /\ \E h \in HostInputs, path \in RequestPaths, query \in Queries :
           session' = MakeSession(h.header, MakeUri(h.authority, path, query))
    /\ ctx' = new_ctx
    /\ pc' = "new"
    /\ UNCHANGED <<others, conf, handlers, result, peer, response, calls, arg>>

\* request_filter_lookup falling back to the first entry of the table.
request_filter_lookup_first(s) ==
    LET found == RouterLookup(Table, UnwrapOrDefault(SessionHost(s)), s.uri.path)
    IN IF IsSome(found) THEN found
       ELSE Some([index |-> 0, value |-> Table[1].value])

\* request_filter_lookup with the authority of the URI before the Host header.
request_filter_lookup_authority(s) ==
    RouterLookup(Table,
                 UnwrapOrDefault(IF IsSome(s.uri.authority) THEN s.uri.authority
                                 ELSE s.header_host),
                 s.uri.path)

\* let path = ..; let host = ..; self.handlers.lookup(host.as_ref(), &path)
request_filter_lookup(s) ==
    RouterLookup(Table, UnwrapOrDefault(SessionHost(s)), s.uri.path)

\* insert_index_entry with the session left without its token.
insert_index_entry_skipped(s, index) == s

\* session.extensions_mut().insert(IndexEntry(index))
insert_index_entry(s, index) == [s EXCEPT !.extensions = Some(index)]

\* new_path_of yielding the root path for an entry without a strip marker.
new_path_of_root(strip_path, path) ==
    IF IsSome(strip_path) THEN remove_prefix_from(Unwrap(strip_path), path)
    ELSE Some(<<SEPARATOR>>)

\* strip_path.as_ref().and_then(|p| p.remove_prefix_from(path))
new_path_of(strip_path, path) ==
    IF IsSome(strip_path) THEN remove_prefix_from(Unwrap(strip_path), path)
    ELSE None

\* if let Some(new_path) = new_path { session.set_uri(set_uri_path(..)) }
apply_new_path(s, new_path) ==
    IF IsSome(new_path)
    THEN [s EXCEPT !.uri = set_uri_path(s.uri, Unwrap(new_path))]
    ELSE s

\* delegate_request_filter with the handler's error turned into Unhandled.
delegate_request_filter_lenient(handler) ==
    IF handler.result = "Error" THEN "Unhandled" ELSE handler.result

\* handler.request_filter(session, ctx).await, returned as it is
delegate_request_filter(handler) == handler.result

request_filter ==
    /\ pc = "new"
    /\ LET path == session.uri.path
           found == request_filter_lookup(session)
       IN IF IsSome(found)
          THEN LET strip_path == Unwrap(found).value.strip
                   handler == Unwrap(found).value.handler
                   index == Unwrap(found).index
                   new_path == new_path_of(strip_path, path)
               IN /\ ctx' = [ctx EXCEPT !.index = Some(index)]
                  /\ session' = apply_new_path(insert_index_entry(session, index),
                                               new_path)
                  /\ calls' = Append(calls, Call("request_filter", handler, TRUE))
                  /\ result' = Some(delegate_request_filter(handler))
          ELSE /\ result' = Some("Unhandled")
               /\ UNCHANGED <<ctx, session, calls>>
    /\ pc' = "request_filter"
    /\ UNCHANGED <<others, conf, handlers, peer, response, arg>>

upstream_peer(a) ==
    /\ pc \in {"new", "request_filter"}
    /\ arg' = a
    /\ LET handler == as_inner(CtxOf(a)) IN
       IF IsSome(handler)
       THEN /\ calls' = Append(calls, Call("upstream_peer", Unwrap(handler), TRUE))
            /\ peer' = Some(Some(Unwrap(handler).name))
       ELSE /\ peer' = Some(None)
            /\ UNCHANGED calls
    /\ pc' = "upstream_peer"
    /\ UNCHANGED <<others, conf, handlers, session, ctx, result, response>>

\* c is the Option<&mut CTX> the phase is called with.
response_filter_with(a, c) ==
    /\ pc \in {"new", "request_filter", "upstream_peer"}
    /\ arg' = a
    /\ LET handler == RecoveredHandler(session, c) IN
       IF IsSome(handler)
       THEN /\ calls' = Append(calls,
                               Call("response_filter", Unwrap(handler), IsSome(c)))
            /\ response' = Append(response, Unwrap(handler).name)
       ELSE UNCHANGED <<calls, response>>
    /\ pc' = "response_filter"
    /\ UNCHANGED <<others, conf, handlers, session, ctx, result, peer>>

response_filter(a) ==
    response_filter_with(a, IF a = "none" THEN None ELSE Some(CtxOf(a)))

\* logging with the index taken out of the context it is called with.
logging_takes_index(a) ==
    /\ pc \in {"new", "request_filter", "upstream_peer", "response_filter"}
    /\ arg' = a
    /\ LET handler == as_inner(CtxOf(a)) IN
       IF IsSome(handler)
       THEN calls' = Append(calls, Call("logging", Unwrap(handler), TRUE))
       ELSE UNCHANGED calls
    /\ ctx' = IF a = "same" THEN [ctx EXCEPT !.index = None] ELSE ctx
    /\ pc' = "logging"
    /\ UNCHANGED <<others, conf, handlers, session, result, peer, response>>

logging(a) ==
    /\ pc \in {"new", "request_filter", "upstream_peer", "response_filter"}
    /\ arg' = a
    /\ LET handler == as_inner(CtxOf(a)) IN
       IF IsSome(handler)
       THEN calls' = Append(calls, Call("logging", Unwrap(handler), TRUE))
       ELSE UNCHANGED calls
    /\ pc' = "logging"
    /\ UNCHANGED <<others, conf, handlers, session, ctx, result, peer, response>>

\* The request completes: its session and context are dropped.
Finish ==
    /\ pc \notin {"idle"}
    /\ pc' = "idle"
    /\ session' = IdleSession
    /\ ctx' = new_ctx
    /\ result' = None
    /\ peer' = None
    /\ response' = <<>>
    /\ calls' = <<>>
    /\ arg' = "same"
    /\ UNCHANGED <<others, conf, handlers>>

Next ==
    \/ NewRequest
    \/ request_filter
    \/ \E a \in CtxArgs : upstream_peer(a)
    \/ \E a \in CtxArgs \cup {"none"} : response_filter(a)
    \/ \E a \in CtxArgs : logging(a)
    \/ Finish

Spec == Init /\ [][Next]_vars

\* The same handler compiled from the configurations of CompileConfs.
InitCompile ==
    /\ Compiled(CompileConfs)
    /\ Idle
    /\ inflight = <<>>
    /\ chain = NoChain
    /\ pair = NoPair

SpecCompile == InitCompile /\ [][Next]_vars

\* The same handler compiled from the configurations of HostConfs.
InitHosts ==
    /\ Compiled(HostConfs)
    /\ Idle
    /\ inflight = <<>>
    /\ chain = NoChain
    /\ pair = NoPair

SpecHosts == InitHosts /\ [][Next]_vars

-----------------------------------------------------------------------------
(* Several requests in flight on one handler *)

\* The number of requests in flight at once.
NumReqs == 2

Reqs == 1..NumReqs

\* The tests' configuration without a default virtual host.
ConcConfs ==
    {[vhosts |-> <<LocalHost(FALSE, <<SubdirRule, FileRule, SubsubRule>>),
                   ExampleCom, ExampleInfo>>]}

\* The requests in flight ask for /subdir/xyz or /subdir/file.txt of
\* localhost or of a host that is not configured.
ConcHosts == {Some("localhost"), Some("unknown")}

ConcPaths == {<<"/", "s", "/", "x">>, <<"/", "s", "/", "f">>}

\* The session, the context and the position of a request that is not in
\* flight; handler is the local of request_filter that lives across its
\* .await.
IdleReq ==
    [pc |-> "idle", session |-> IdleSession, ctx |-> new_ctx, handler |-> None,
     result |-> None, calls |-> <<>>]

\* StoreIndex writing the index into the context of every request in flight.
StoreIndex_shared(reqs, r, index) ==
    [q \in DOMAIN reqs |-> [reqs[q] EXCEPT !.ctx.index = Some(index)]]

\* ctx.index = Some(index): ctx is the &mut Self::CTX of the request r.
StoreIndex(reqs, r, index) == [reqs EXCEPT ![r].ctx.index = Some(index)]

InitConc ==
    /\ Compiled(ConcConfs)
    /\ Idle
    /\ inflight = [r \in Reqs |-> IdleReq]
    /\ chain = NoChain
    /\ pair = NoPair

single == <<conf, handlers, pc, session, ctx, result, peer, response, calls,
            arg, error, chain, pair>>

\* A request arrives as the request r, with one of the hosts, paths and
\* queries.
Arrive(r, hosts, paths, queries) ==
    /\ inflight[r].pc = "idle"
    /\ IsSome(handlers)
    /\ \E h \in hosts, path \in paths, query \in queries :
           inflight' = [inflight EXCEPT ![r] =
               [IdleReq EXCEPT !.pc = "new",
                               !.session = MakeSession(h, MakeUri(None, path, query))]]
    /\ UNCHANGED single

\* The request r arrives.
ConcNewRequest(r) == Arrive(r, ConcHosts, ConcPaths, {None})

\* request_filter of the request r up to the .await of the delegation.
ConcSelect(r) ==
    /\ inflight[r].pc = "new"
    /\ LET s == inflight[r].session
           found == request_filter_lookup(s)
       IN IF IsSome(found)
          THEN LET strip_path == Unwrap(found).value.strip
                   handler == Unwrap(found).value.handler
                   index == Unwrap(found).index
                   new_path == new_path_of(strip_path, s.uri.path)
                   stored == StoreIndex(inflight, r, index)
               IN inflight' = [stored EXCEPT
                      ![r].handler = Some(handler),
                      ![r].session = apply_new_path(insert_index_entry(s, index),
                                                    new_path),
                      ![r].pc = "await"]
          ELSE inflight' = [inflight EXCEPT ![r].result = Some("Unhandled"),
                                            ![r].pc = "request_filter"]
    /\ UNCHANGED single

\* ConcDelegate with the selection undone when the handler does not handle
\* the request.
ConcDelegate_undo(r) ==
    /\ inflight[r].pc = "await"
    /\ LET handler == Unwrap(inflight[r].handler)
           res == delegate_request_filter(handler)
           undo == res \in {"Unhandled", "Error"}
       IN inflight' = [inflight EXCEPT
              ![r].calls = Append(@, Call("request_filter", handler, TRUE)),
              ![r].result = Some(res),
              ![r].ctx = IF undo THEN new_ctx ELSE @,
              ![r].session = IF undo
                             THEN [@ EXCEPT
                                      !.uri = inflight[r].session.original_uri,
                                      !.extensions = None]
                             ELSE @,
              ![r].pc = "request_filter"]
    /\ UNCHANGED single

\* handler.request_filter(session, ctx).await of the request r completes.
ConcDelegate(r) ==
    /\ inflight[r].pc = "await"
    /\ LET handler == Unwrap(inflight[r].handler)
       IN inflight' = [inflight EXCEPT
              ![r].calls = Append(@, Call("request_filter", handler, TRUE)),
              ![r].result = Some(delegate_request_filter(handler)),
              ![r].pc = "request_filter"]
    /\ UNCHANGED single

\* upstream_peer or logging of the request r, with the request's context.
ConcLater(r, phase, before) ==
    /\ inflight[r].pc \in before
    /\ LET handler == as_inner(inflight[r].ctx) IN
       inflight' = [inflight EXCEPT
           ![r].calls = IF IsSome(handler)
                        THEN Append(@, Call(phase, Unwrap(handler), TRUE))
                        ELSE @,
           ![r].pc = phase]
    /\ UNCHANGED single

ConcUpstreamPeer(r) == ConcLater(r, "upstream_peer", {"new", "request_filter"})

\* response_filter of the request r, with the request's context or without.
ConcResponseFilter(r, with_ctx) ==
    /\ inflight[r].pc \in {"new", "request_filter", "upstream_peer"}
    /\ LET c == IF with_ctx THEN Some(inflight[r].ctx) ELSE None
           handler == RecoveredHandler(inflight[r].session, c)
       IN inflight' = [inflight EXCEPT
              ![r].calls = IF IsSome(handler)
                           THEN Append(@, Call("response_filter", Unwrap(handler),
                                               with_ctx))
                           ELSE @,
              ![r].pc = "response_filter"]
    /\ UNCHANGED single

ConcLogging(r) ==
    ConcLater(r, "logging",
              {"new", "request_filter", "upstream_peer", "response_filter"})

\* The request r completes: its session and context are dropped.
ConcFinish(r) ==
    /\ inflight[r].pc \notin {"idle", "await"}
    /\ inflight' = [inflight EXCEPT ![r] = IdleReq]
    /\ UNCHANGED single

NextConc ==
    \E r \in Reqs :
        \/ ConcNewRequest(r)
        \/ ConcSelect(r)
        \/ ConcDelegate(r)
        \/ ConcUpstreamPeer(r)
        \/ \E with_ctx \in BOOLEAN : ConcResponseFilter(r, with_ctx)
        \/ ConcLogging(r)
        \/ ConcFinish(r)

SpecConc == InitConc /\ [][NextConc]_vars

-----------------------------------------------------------------------------
(* One request, request_filter in its two steps *)

\* "/xyz/*": strip_prefix: true, a handler whose request_filter fails
FailRule ==
    [rule |-> [path |-> <<"/", "x">>, exact |-> FALSE], strip_prefix |-> TRUE,
     config |-> HandlerConf("failing", "Error")]

\* The tests' configuration with that rule added to localhost.
StepConfs ==
    {[vhosts |-> <<LocalHost(FALSE, <<SubdirRule, FileRule, FailRule>>),
                   ExampleCom, ExampleInfo>>]}

StepHosts == {Some("localhost"), Some("example.info"), Some("unknown")}

\* /subdir/xyz, /subdir/file.txt, /xyz/subdir, /xyz and /
StepPaths ==
    {<<"/", "s", "/", "x">>, <<"/", "s", "/", "f">>, <<"/", "x", "/", "s">>,
     <<"/", "x">>, <<"/">>}

InitSteps ==
    /\ Compiled(StepConfs)
    /\ Idle
    /\ inflight = [r \in {1} |-> IdleReq]
    /\ chain = NoChain
    /\ pair = NoPair

NextSteps ==
    \/ Arrive(1, StepHosts, StepPaths, Queries)
    \/ ConcSelect(1)
    \/ ConcDelegate(1)
    \/ ConcUpstreamPeer(1)
    \/ \E with_ctx \in BOOLEAN : ConcResponseFilter(1, with_ctx)
    \/ ConcLogging(1)
    \/ ConcFinish(1)

SpecSteps == InitSteps /\ [][NextSteps]_vars

-----------------------------------------------------------------------------
(* #[derive(RequestFilter)]: a handler chaining the handlers of its fields *)

\* The number of fields of the derived handler.
MaxChain == 3

\* The derived handlers: the results of the request_filter of their fields,
\* in the order in which the fields are listed.
Chains == UNION {[1..n -> Results] : n \in 1..MaxChain}

\* ChainStops with only ResponseSent ending the chain.
ChainStops_response_sent(res) == res = "ResponseSent"

\* A field's result that prevents the subsequent handlers from being called.
ChainStops(res) == res # "Unhandled"

InitChain ==
    /\ Compiled(ConcConfs)
    /\ Idle
    /\ inflight = <<>>
    /\ pair = NoPair
    /\ \E fields \in Chains :
           chain = [handlers |-> fields, next |-> 1, called |-> <<>>,
                    result |-> None]

unchained == <<conf, handlers, pc, session, ctx, result, peer, response, calls,
               arg, error, inflight, pair>>

\* The derived request_filter calls the request_filter of its next field.
ChainCall ==
    /\ chain.result = None
    /\ chain.next <= Len(chain.handlers)
    /\ LET res == chain.handlers[chain.next] IN
       chain' = [chain EXCEPT
           !.called = Append(@, chain.next),
           !.next = IF ChainStops(res) THEN @ ELSE @ + 1,
           !.result = IF ChainStops(res) THEN Some(res) ELSE None]
    /\ UNCHANGED unchained

\* No field is left: the derived request_filter returns Unhandled.
ChainReturn ==
    /\ chain.result = None
    /\ chain.next > Len(chain.handlers)
    /\ chain' = [chain EXCEPT !.result = Some("Unhandled")]
    /\ UNCHANGED unchained

NextChain == ChainCall \/ ChainReturn

SpecChain == InitChain /\ [][NextChain]_vars

-----------------------------------------------------------------------------
(* Two VirtualHostsHandler instances on one session *)

\* The configurations of the two instances: the tests' configuration, its
\* virtual hosts iterated in one order and in the other.
PairConfs ==
    <<[vhosts |-> <<LocalHost(TRUE, <<SubdirRule, FileRule, SubsubRule>>),
                    ExampleCom, ExampleInfo>>],
      [vhosts |-> <<ExampleInfo, ExampleCom,
                    LocalHost(TRUE, <<SubdirRule, FileRule, SubsubRule>>)>>]>>

\* The compiled table of the instance i.
TableOf(i) == try_from(PairConfs[i]).handlers

\* nested: the second instance is the handler of the entries of the first,
\* VirtualHostsHandler<VirtualHostsHandler<H>>.  chained: the two are
\* called one after the other on the request.
Shapes == {"nested", "chained"}

\* request_filter of the instance i up to the delegation, on the session
\* the two share and the context of the instance.
PairSelected(p, i) ==
    LET s == p.session
        found == RouterLookup(TableOf(i), UnwrapOrDefault(SessionHost(s)),
                              s.uri.path)
    IN IF IsSome(found)
       THEN LET strip_path == Unwrap(found).value.strip
                handler == Unwrap(found).value.handler
                index == Unwrap(found).index
                new_path == new_path_of(strip_path, s.uri.path)
            IN [p EXCEPT
                   !.ctx[i].index = Some(index),
                   !.session = apply_new_path(insert_index_entry(s, index),
                                              new_path),
                   !.results[i] = Some(delegate_request_filter(handler))]
       ELSE [p EXCEPT !.results[i] = Some("Unhandled")]

\* The second instance is called after the first: nested, when the first
\* found an entry, whose handler the second is; chained, when the first
\* returned Unhandled.
SecondRuns ==
    IF pair.shape = "nested" THEN IsSome(pair.ctx[1].index)
    ELSE pair.results[1] = Some("Unhandled")

InitPair ==
    /\ Compiled({PairConfs[1]})
    /\ Idle
    /\ inflight = <<>>
    /\ chain = NoChain
    /\ pair = NoPair

unpaired == <<conf, handlers, pc, session, ctx, result, peer, response, calls,
              arg, error, inflight, chain>>

\* A request arrives at the two instances.
PairArrive ==
    /\ pair.pc = "idle"
    /\ \E shape \in Shapes, h \in HostInputs, path \in TestPaths :
           pair' = [NoPair EXCEPT
                        !.shape = shape,
                        !.pc = "new",
                        !.session = MakeSession(h.header,
                                                MakeUri(h.authority, path, None))]
    /\ UNCHANGED unpaired

\* request_filter of the first instance.
PairFirst ==
    /\ pair.pc = "new"
    /\ pair' = [PairSelected(pair, 1) EXCEPT !.pc = "first"]
    /\ UNCHANGED unpaired

\* request_filter of the second instance, when it is called; nested, its
\* result is what the first instance returns.
PairSecond ==
    /\ pair.pc = "first"
    /\ LET after == IF SecondRuns THEN PairSelected(pair, 2) ELSE pair IN
       pair' = [after EXCEPT
                    !.pc = "second",
                    !.results[1] = IF pair.shape = "nested" /\ SecondRuns
                                   THEN after.results[2]
                                   ELSE @]
    /\ UNCHANGED unpaired

\* response_filter of the instance i, called without a context.
PairResponseFilter(i) ==
    /\ pair.pc \in {"second", "response_filter"}
    /\ LET index == RecoveredIndex(pair.session, None)
           entry == IF IsSome(index)
                    THEN RouterRetrieve(TableOf(i), Unwrap(index))
                    ELSE None
       IN pair' = [pair EXCEPT
              !.read[i] = index,
              !.shaped[i] = IF IsSome(entry)
                            THEN Some(Unwrap(entry).handler.name)
                            ELSE None,
              !.pc = "response_filter"]
    /\ UNCHANGED unpaired

\* The request completes.
PairFinish ==
    /\ pair.pc \in {"second", "response_filter"}
    /\ pair' = NoPair
    /\ UNCHANGED unpaired

NextPair ==
    \/ PairArrive
    \/ PairFirst
    \/ PairSecond
    \/ \E i \in {1, 2} : PairResponseFilter(i)
    \/ PairFinish

SpecPair == InitPair /\ [][NextPair]_vars

-----------------------------------------------------------------------------
(* What the request in flight asked for *)

\* request_filter has run for the request in flight.
Ran == IsSome(result)

\* The host of the request, as request_filter resolves it.
ReqHost == UnwrapOrDefault(SessionHost(session))

\* The lookup of the request as it arrived.
Matched == RouterLookup(Table, ReqHost, session.original_uri.path)

\* The selection phase ran and found an entry.
Hit == IsSome(handlers) /\ Ran /\ IsSome(Matched)

\* The selection phase ran and found none.
Miss == IsSome(handlers) /\ Ran /\ ~IsSome(Matched)

MatchedIndex == Unwrap(Matched).index

MatchedHandler == Unwrap(Matched).value.handler

LastCall == calls[Len(calls)]

CallsOf(phase) == {i \in 1..Len(calls) : calls[i].phase = phase}

-----------------------------------------------------------------------------
(* Claims *)

\* C1: after a selection that found an entry, the context's index and the
\* session's IndexEntry token are both set, to the index of the matched entry.
C1_IndexInBothCarriers ==
    Hit => /\ ctx.index = Some(MatchedIndex)
           /\ session.extensions = Some(MatchedIndex)

\* A selection hit on an entry other than the first, both carriers set.
C1_Witness ==
    /\ Hit
    /\ pc = "request_filter"
    /\ MatchedIndex > 0
    /\ ctx.index = Some(MatchedIndex)
    /\ session.extensions = Some(MatchedIndex)

\* C2: every handler called in the upstream-peer, response and logging
\* phases is the handler the selection phase delegated to, also when a lookup
\* of the request's present (rewritten) path would find another entry.
C2_LaterPhasesSameHandler ==
    \A i \in 1..Len(calls) :
        calls[i].phase # "request_filter" =>
            /\ Hit
            /\ calls[1] = Call("request_filter", MatchedHandler, TRUE)
            /\ calls[i].handler = calls[1].handler

\* /subdir/file.txt/xyz fell through to the prefix rule and was rewritten to
\* /file.txt/xyz, which a new lookup resolves to the root entry; all three
\* later phases called the prefix rule's handler.
C2_Witness ==
    /\ Hit
    /\ session.original_uri.path = <<"/", "s", "/", "f", "/", "x">>
    /\ session.uri.path = <<"/", "f", "/", "x">>
    /\ Unwrap(RouterLookup(Table, ReqHost, session.uri.path)).value.handler
           # MatchedHandler
    /\ Len(calls) = 4
    /\ \A i \in 1..4 : calls[i].handler = SubdirRule.config.name

\* C3: after a selection hit, response_filter called without a context, or
\* with a context whose index is empty, calls the selected entry's handler.
C3_ResponseFilterUsesToken ==
    (Hit /\ pc = "response_filter" /\ arg \in {"none", "fresh"}) =>
        /\ calls # <<>>
        /\ LastCall = Call("response_filter", MatchedHandler, arg # "none")
        /\ response = <<MatchedHandler.name>>

\* response_filter ran without a context and called the handler of an entry
\* that only the token names.
C3_Witness ==
    /\ Hit
    /\ pc = "response_filter"
    /\ arg = "none"
    /\ MatchedIndex > 0
    /\ LastCall = Call("response_filter", MatchedHandler, FALSE)

C5_MissHasNoEffect ==
    Miss => /\ result = Some("Unhandled")
            /\ ctx.index = None
            /\ session.extensions = None
            /\ session.uri = session.original_uri
            /\ calls = <<>>

\* An unknown host without a default virtual host, after request_filter.
C5_Witness ==
    /\ Miss
    /\ pc = "request_filter"
    /\ ReqHost = "unknown"
    /\ result = Some("Unhandled")

\* C6: a selection hit calls request_filter of the matched entry's handler,
\* of no other handler, once, and returns what that handler returned.
C6_DelegatesOnce ==
    Hit => /\ CallsOf("request_filter") = {1}
           /\ calls[1] = Call("request_filter", MatchedHandler, TRUE)
           /\ result = Some(MatchedHandler.result)

\* A hit whose handler failed: the error is what request_filter returned.
C6_Witness ==
    /\ Hit
    /\ MatchedHandler.result = "Error"
    /\ result = Some("Error")
    /\ CallsOf("request_filter") = {1}

\* C7: without a selection hit as_inner finds no handler and the later
\* phases do nothing: upstream_peer returns Ok(None), no handler is called,
\* the response is untouched.  After a hit as_inner returns the selected
\* handler.
C7_NoSelectionNoHandler ==
    IsSome(handlers) =>
        IF Hit
        THEN as_inner(ctx) = Some(MatchedHandler)
        ELSE /\ as_inner(ctx) = None
             /\ calls = <<>>
             /\ response = <<>>
             /\ peer \in {None, Some(None)}

\* The three later phases ran after a selection that found nothing.
C7_Witness ==
    /\ Miss
    /\ pc = "logging"
    /\ peer = Some(None)
    /\ calls = <<>>
    /\ response = <<>>

-----------------------------------------------------------------------------
(* What the configuration asks for *)

VHosts == conf.vhosts

\* The virtual hosts that list the host name.
Owners(host) ==
    {i \in 1..Len(VHosts) : host # "" /\ host \in SeqToSet(VHosts[i].hosts)}

DefaultVHosts == {i \in 1..Len(VHosts) : VHosts[i].default}

FirstDefault == CHOOSE i \in DefaultVHosts : \A j \in DefaultVHosts : i <= j

\* The virtual hosts the request's host is to be served by: the one listing
\* it, else the default one.
Serving ==
    IF Owners(ReqHost) # {} THEN Owners(ReqHost)
    ELSE IF DefaultVHosts # {} THEN {FirstDefault}
    ELSE {}

OriginalPath == session.original_uri.path

RuleSegments(sp) == Segments(sp.rule.path)

\* The rule's segments lead the request path.
Leads(sp) == IsPrefixSeq(RuleSegments(sp), Segments(OriginalPath))

\* The rule applies to the request path: a prefix rule when its segments
\* lead the path, an exact rule when they are the path's segments.
Applies(sp) ==
    IF sp.rule.exact THEN RuleSegments(sp) = Segments(OriginalPath)
    ELSE Leads(sp)

Rules(vh) == SeqToSet(vh.subpaths)

\* No other rule of the virtual host with as many segments or more applies.
Longest(vh, sp) ==
    \A other \in Rules(vh) \ {sp} :
        Applies(other) => Len(RuleSegments(other)) < Len(RuleSegments(sp))

\* The raw remainder of the request path after the leading segments segs:
\* what follows the last character of the last of them, "/" if nothing does.
Remainder(segs) ==
    LET k == CHOOSE n \in 0..Len(OriginalPath) :
                 /\ Segments(SubSeq(OriginalPath, 1, n)) = segs
                 /\ \A m \in 0..(n - 1) :
                        Segments(SubSeq(OriginalPath, 1, m)) # segs
        rest == Drop(OriginalPath, k)
    IN IF rest = <<>> THEN <<SEPARATOR>> ELSE rest

\* The URI as it arrived with its path replaced by the remainder.
Stripped(sp) ==
    [session.original_uri EXCEPT !.path = Remainder(RuleSegments(sp))]

\* The request was served by this rule and rewritten.
ServedStripped(sp) ==
    /\ calls # <<>>
    /\ calls[1] = Call("request_filter", TryInto(sp.config).value, TRUE)
    /\ session.uri = Stripped(sp)

\* The request was served by this rule or root handler with its URI kept.
ServedUntouched(config) ==
    /\ calls # <<>>
    /\ calls[1] = Call("request_filter", TryInto(config).value, TRUE)
    /\ session.uri = session.original_uri

StripRules(vh) == {sp \in Rules(vh) : ~sp.rule.exact /\ sp.strip_prefix}

PlainExactRules(vh) == {sp \in Rules(vh) : sp.rule.exact /\ ~sp.strip_prefix}

-----------------------------------------------------------------------------

\* C8, as claimed: every request path led by the segments of a prefix rule
\* with strip_prefix is served by that rule and rewritten to the raw
\* remainder with its query; a path that has the rule's path as a string
\* prefix but not as leading segments is served by the root entry, unchanged.
C8_Original ==
    Hit => \A i \in Serving : \A sp \in StripRules(VHosts[i]) :
               /\ Leads(sp) => ServedStripped(sp)
               /\ (StartsWith(OriginalPath, sp.rule.path) /\ ~Leads(sp))
                      => ServedUntouched(VHosts[i].config)

\* C8, amended: a request path led by the segments of a prefix rule with
\* strip_prefix is served by that rule and rewritten to the raw remainder
\* ("/" if empty) with its query, unless another rule of the virtual host
\* with as many segments or more applies to it; a path to which no rule of
\* the virtual host applies is served by the root entry, unchanged.
C8_StripPrefix ==
    Hit => \A i \in Serving :
               /\ \A sp \in StripRules(VHosts[i]) :
                      (Leads(sp) /\ Longest(VHosts[i], sp)) => ServedStripped(sp)
               /\ (\A sp \in Rules(VHosts[i]) : ~Applies(sp))
                      => ServedUntouched(VHosts[i].config)

\* //subdir///xyz//?abc was served by /subdir/* and rewritten to ///xyz//?abc.
C8_Witness ==
    /\ Hit
    /\ OriginalPath = <<"/", "/", "s", "/", "/", "/", "x", "/", "/">>
    /\ session.original_uri.query = Some(<<"a">>)
    /\ calls # <<>>
    /\ calls[1].handler = SubdirRule.config.name
    /\ session.uri.path = <<"/", "/", "/", "x", "/", "/">>
    /\ session.uri.query = Some(<<"a">>)

\* C9: an exact rule without strip_prefix serves the paths that consist of
\* its segments, unchanged, wherever it stands in the configuration and also
\* when a prefix rule has the same path; a longer path falls through to the
\* enclosing prefix rule and is stripped by it.
C9_ExactOutranksPrefix ==
    Hit => \A i \in Serving : \A e \in PlainExactRules(VHosts[i]) :
               /\ Applies(e) => ServedUntouched(e.config)
               /\ \A sp \in StripRules(VHosts[i]) :
                      (/\ IsPrefixSeq(RuleSegments(sp), RuleSegments(e))
                       /\ Leads(e) /\ ~Applies(e)
                       /\ Longest(VHosts[i], sp)) => ServedStripped(sp)

\* /subdir/file.txt/ was served by the exact rule, which the configuration
\* lists before the prefix rule, and kept its path.
C9_Witness ==
    /\ Hit
    /\ OriginalPath = <<"/", "s", "/", "f", "/">>
    /\ ServedUntouched(FileRule.config)
    /\ \E i \in Serving : /\ VHosts[i].subpaths # <<>>
                           /\ Head(VHosts[i].subpaths) = FileRule

\* The value an entry carries for the request path when the request is sent
\* to the host name.
ValueFor(host) == Unwrap(RouterLookup(Table, host, OriginalPath)).value

\* C10: a request whose host no virtual host lists is Unhandled without a
\* default virtual host; with one it is served as a request to any name of
\* the default virtual host is: same handler, same rule, same rewrite.
C10_DefaultFallback ==
    (IsSome(handlers) /\ Ran /\ Owners(ReqHost) = {}) =>
        IF DefaultVHosts = {}
        THEN result = Some("Unhandled") /\ calls = <<>>
        ELSE \A alias \in SeqToSet(RetainNonEmpty(VHosts[FirstDefault].hosts)) :
                 /\ calls # <<>>
                 /\ calls[1] = Call("request_filter", ValueFor(alias).handler, TRUE)
                 /\ result = Some(ValueFor(alias).handler.result)
                 /\ session.uri =
                        IF IsSome(ValueFor(alias).strip)
                        THEN [session.original_uri EXCEPT
                                 !.path = Remainder(Unwrap(ValueFor(alias).strip))]
                        ELSE session.original_uri

\* A request without any host was served by the default virtual host's
\* /subdir/* rule and rewritten.
C10_Witness ==
    /\ Hit
    /\ SessionHost(session) = None
    /\ DefaultVHosts # {}
    /\ OriginalPath = <<"/", "s", "/", "x">>
    /\ calls # <<>>
    /\ calls[1].handler = SubdirRule.config.name
    /\ session.uri.path = <<"/", "x">>

-----------------------------------------------------------------------------
(* Compilation *)

\* The names of the handlers a virtual host's configuration converts to.
HandlerNames(vh) ==
    {vh.config.name} \cup {sp.config.name : sp \in Rules(vh)}

\* The entries of the table under a host name.
EntriesOf(host) == {i \in 1..Len(Table) : Table[i].host = host}

\* C11: with two or more virtual hosts marked default try_from succeeds, the
\* entries under the empty host name are all the first default virtual
\* host's, and a request of an unlisted host is served by it in every phase.
C11_FirstDefaultWins ==
    Cardinality(DefaultVHosts) >= 2 =>
        /\ IsSome(handlers)
        /\ error = None
        /\ EntriesOf("") # {}
        /\ \A i \in EntriesOf("") :
               Table[i].value.handler.name \in HandlerNames(VHosts[FirstDefault])
        /\ (Ran /\ Owners(ReqHost) = {}) =>
               /\ calls # <<>>
               /\ \A k \in 1..Len(calls) :
                      calls[k].handler \in HandlerNames(VHosts[FirstDefault])

\* example.com and localhost are both default and example.com comes first:
\* /subdir/xyz of an unlisted host went to example.com's root handler and
\* was not stripped by the later default's /subdir/*.
C11_Witness ==
    /\ Cardinality(DefaultVHosts) >= 2
    /\ VHosts[FirstDefault] = ExampleComDefault
    /\ Hit
    /\ ReqHost = "unknown"
    /\ OriginalPath = <<"/", "s", "/", "x">>
    /\ calls = <<Call("request_filter", TryInto(ExampleComDefault.config).value, TRUE)>>
    /\ session.uri = session.original_uri

\* The URI the request is to have after a selection whose entry carries
\* the strip marker strip.
UriAfter(strip) ==
    IF IsSome(strip)
    THEN [session.original_uri EXCEPT !.path = Remainder(Unwrap(strip))]
    ELSE session.original_uri

\* The names a virtual host is reached by.
Aliases(vh) == SeqToSet(RetainNonEmpty(vh.hosts))

\* C12: a request to one name of a virtual host is served as a request of
\* the same path to any other name of that virtual host is: the two lookups
\* find the same handler and the same strip marker, hence the same outcome
\* and the same rewritten URI.
C12_AliasEquivalence ==
    (IsSome(handlers) /\ Ran) =>
        \A i \in Owners(ReqHost) : \A alias \in Aliases(VHosts[i]) :
            LET other == RouterLookup(Table, alias, OriginalPath) IN
            IF IsSome(other)
            THEN /\ calls # <<>>
                 /\ calls[1] = Call("request_filter",
                                    Unwrap(other).value.handler, TRUE)
                 /\ result = Some(Unwrap(other).value.handler.result)
                 /\ Unwrap(Matched).value.strip = Unwrap(other).value.strip
                 /\ session.uri = UriAfter(Unwrap(other).value.strip)
            ELSE Miss

\* /subdir/xyz?abc sent to 127.0.0.1 was served and rewritten as it is for
\* localhost, by an entry of another index.
C12_Witness ==
    /\ Hit
    /\ ReqHost = "127.0.0.1"
    /\ OriginalPath = <<"/", "s", "/", "x">>
    /\ session.uri = MakeUri(session.original_uri.authority, <<"/", "x">>,
                             Some(<<"a">>))
    /\ calls[1].handler = SubdirRule.config.name
    /\ LET other == RouterLookup(Table, "localhost", OriginalPath) IN
       /\ IsSome(other)
       /\ Unwrap(other).index # MatchedIndex
       /\ Unwrap(other).value = Unwrap(Matched).value

\* The errors of the conversions of a configuration that fail.
FailingConversions ==
    {VHosts[i].config.name : i \in {j \in 1..Len(VHosts) : ~VHosts[j].config.ok}}
    \cup UNION {{VHosts[i].subpaths[k].config.name :
                    k \in {l \in 1..Len(VHosts[i].subpaths) :
                              ~VHosts[i].subpaths[l].config.ok}} :
                i \in 1..Len(VHosts)}

\* The number of names a virtual host is pushed under.
NumNames(i) ==
    Cardinality(Aliases(VHosts[i]))
    + (IF DefaultVHosts # {} /\ i = FirstDefault THEN 1 ELSE 0)

\* The number of pushes of the virtual hosts 1..n of a configuration.
RECURSIVE NumPushes(_)
NumPushes(n) ==
    IF n = 0 THEN 0
    ELSE NumPushes(n - 1) + NumNames(n) * (1 + Len(VHosts[n].subpaths))

\* C13: when a conversion of a handler configuration fails, of a virtual
\* host or of a sub-path, compilation yields that error and no table, so no
\* request is ever dispatched, whatever was pushed before; when every
\* conversion succeeds, compilation yields the table of all pushes.
C13_AllOrNothing ==
    IF FailingConversions # {}
    THEN /\ handlers = None
         /\ IsSome(error)
         /\ Unwrap(error) \in FailingConversions
         /\ pc = "idle"
         /\ calls = <<>>
    ELSE /\ IsSome(handlers)
         /\ error = None
         /\ Len(Table) = NumPushes(Len(VHosts))

\* The conversion of a sub-path rule failed after the root and two rules
\* of its host were pushed: the error is the rule's, there is no table.
C13_Witness ==
    /\ VHosts[1] = LocalHost(TRUE, <<BrokenRule, SubdirRule, SubsubRule>>)
    /\ SortByExact(VHosts[1].subpaths)[3] = BrokenRule
    /\ error = Some("broken_rule")
    /\ handlers = None

\* C14: the compiled table is the one try_from built, every entry of it is
\* retrieved by its zero-based push position, and when the lookup of a request
\* succeeds, the index it yields is one of the table and the entry retrieved
\* by that index holds the handler the lookup returned.
C14_IndexIdentity ==
    IsSome(handlers) =>
        /\ Table = try_from(conf).handlers
        /\ \A i \in 1..Len(Table) :
               RouterRetrieve(Table, i - 1) = Some(Table[i].value)
        /\ RouterRetrieve(Table, Len(Table)) = None
        /\ IsSome(Matched) =>
               /\ MatchedIndex \in 0..(Len(Table) - 1)
               /\ IsSome(RouterRetrieve(Table, MatchedIndex))
               /\ Unwrap(RouterRetrieve(Table, MatchedIndex)).handler
                      = MatchedHandler

\* A path below /subdir was matched by the entry of the prefix rule, and the
\* upstream-peer phase retrieved the lookup's handler by the index.
C14_Witness ==
    /\ Hit
    /\ pc = "upstream_peer"
    /\ arg = "same"
    /\ MatchedIndex > 0
    /\ Table[MatchedIndex + 1].path # Segments(OriginalPath)
    /\ as_inner(ctx) = Some(MatchedHandler)
    /\ peer = Some(Some(MatchedHandler.name))

\* The lookup of the request r as it arrived.
MatchedOf(r) ==
    RouterLookup(Table, UnwrapOrDefault(SessionHost(inflight[r].session)),
                 inflight[r].session.original_uri.path)

\* The selection phase of the request r has stored its selection.
SelectedOf(r) ==
    inflight[r].pc = "await" \/ (IsSome(inflight[r].result) /\ IsSome(MatchedOf(r)))

\* C15: with several requests in flight, their phases interleaved in any
\* order, the table stays the one compilation built, and the context index,
\* the session token and every handler called for a request are those of the
\* entry that request's own selection found; a request whose selection did
\* not run or found nothing has neither index nor token and no handler called.
C15_RequestsIsolated ==
    /\ handlers = Some(try_from(conf).handlers)
    /\ \A r \in DOMAIN inflight :
           LET q == inflight[r] IN
           IF SelectedOf(r)
           THEN /\ q.ctx.index = Some(Unwrap(MatchedOf(r)).index)
                /\ q.session.extensions = Some(Unwrap(MatchedOf(r)).index)
                /\ \A k \in 1..Len(q.calls) :
                       q.calls[k].handler = Unwrap(MatchedOf(r)).value.handler.name
           ELSE /\ q.ctx.index = None
                /\ q.session.extensions = None
                /\ q.calls = <<>>

\* Two requests in flight with different selections: the second selected
\* while the first was between its phases, and the later phases of each
\* called the request's own handler.
C15_Witness ==
    /\ inflight[1].pc = "logging"
    /\ inflight[2].pc = "upstream_peer"
    /\ SelectedOf(1) /\ SelectedOf(2)
    /\ inflight[1].ctx.index # inflight[2].ctx.index
    /\ Len(inflight[1].calls) = 4
    /\ Len(inflight[2].calls) = 2
    /\ inflight[1].calls[4].handler = "subdir"
    /\ inflight[2].calls[2].handler = "file"

\* The fields of the derived handler whose result is not Unhandled.
Stopping == {k \in 1..Len(chain.handlers) : chain.handlers[k] # "Unhandled"}

\* C16: the derived handler calls the request_filter of its fields in the
\* order of the fields, a field only after every earlier one returned
\* Unhandled; it returns the result of the first field that returns
\* ResponseSent or Handled, calling no later field, and Unhandled when every
\* field returned Unhandled.
C16_ChainOrder ==
    /\ chain.called = [k \in 1..Len(chain.called) |-> k]
    /\ Len(chain.called) <= Len(chain.handlers)
    /\ \A k \in 1..Len(chain.called) :
           k < Len(chain.called) => chain.handlers[k] = "Unhandled"
    /\ IsSome(chain.result) =>
           IF Stopping = {}
           THEN /\ Len(chain.called) = Len(chain.handlers)
                /\ chain.result = Some("Unhandled")
           ELSE LET first == CHOOSE k \in Stopping : \A j \in Stopping : k <= j
                IN /\ Len(chain.called) = first
                   /\ chain.result = Some(chain.handlers[first])

\* The second of three fields returned Handled: the first two were called,
\* in order, the third was not.
C16_Witness ==
    /\ chain.handlers = <<"Unhandled", "Handled", "ResponseSent">>
    /\ chain.called = <<1, 2>>
    /\ chain.result = Some("Handled")

\* The host a request is to be selected by: its Host header when it has
\* one, else the authority of its URI, else none.
SelectingHost ==
    IF IsSome(session.header_host) THEN Unwrap(session.header_host)
    ELSE IF IsSome(session.original_uri.authority)
         THEN Unwrap(session.original_uri.authority)
         ELSE ""

\* C17: the selection uses the Host header of the request when there is
\* one and the authority of the URI only when there is none: the entry
\* selected, and the handler called, are those of the lookup under that host,
\* also when header and authority name different virtual hosts.
C17_HostHeaderFirst ==
    (IsSome(handlers) /\ Ran) =>
        LET found == RouterLookup(Table, SelectingHost, OriginalPath) IN
        IF IsSome(found)
        THEN /\ ctx.index = Some(Unwrap(found).index)
             /\ calls # <<>>
             /\ calls[1] = Call("request_filter", Unwrap(found).value.handler, TRUE)
        ELSE /\ ctx.index = None
             /\ calls = <<>>

\* A request with Host example.com and the authority localhost in its URI
\* asked for /subdir/xyz: example.com's handler served it, not the /subdir/*
\* rule of localhost.
C17_Witness ==
    /\ Hit
    /\ session.header_host = Some("example.com")
    /\ session.original_uri.authority = Some("localhost")
    /\ OriginalPath = <<"/", "s", "/", "x">>
    /\ calls = <<Call("request_filter", TryInto(ExampleCom.config).value, TRUE)>>
    /\ IsSome(RouterLookup(Table, "localhost", OriginalPath))
    /\ Unwrap(RouterLookup(Table, "localhost", OriginalPath)).value.handler.name
           = SubdirRule.config.name

\* The entries pushed under one host name, in the order of the pushes.
PushedFor(host) == SelectSeq(Table, LAMBDA e : e.host = host)

\* The names the virtual host i is pushed under.
PushNames(i) ==
    Aliases(VHosts[i])
    \cup (IF DefaultVHosts # {} /\ i = FirstDefault THEN {""} ELSE {})

\* The position of the entry of a sub-path rule among pushed entries.
PositionOf(pushed, sp) ==
    CHOOSE p \in 1..Len(pushed) :
        /\ pushed[p].value.handler.name = sp.config.name
        /\ pushed[p].path = Segments(sp.rule.path)

\* C18: under each name of a virtual host the first push is the root entry,
\* then come the entries of its sub-path rules, one each, those of the prefix
\* rules all before those of the exact rules, two rules of the same kind in
\* the order in which the configuration iterates them.
C18_PushOrder ==
    IsSome(handlers) =>
        \A i \in 1..Len(VHosts) : \A host \in PushNames(i) :
            LET pushed == PushedFor(host)
                subs == VHosts[i].subpaths
            IN /\ Len(pushed) = 1 + Len(subs)
               /\ pushed[1].path = <<>>
               /\ pushed[1].value.handler.name = VHosts[i].config.name
               /\ \A j \in 1..Len(subs) :
                      \E p \in 2..Len(pushed) :
                          /\ pushed[p].value.handler.name = subs[j].config.name
                          /\ pushed[p].path = Segments(subs[j].rule.path)
                          /\ IsSome(pushed[p].prefix) = ~subs[j].rule.exact
               /\ \A j, k \in 1..Len(subs) :
                      (\/ (~subs[j].rule.exact /\ subs[k].rule.exact)
                       \/ (j < k /\ subs[j].rule.exact = subs[k].rule.exact))
                      => PositionOf(pushed, subs[j]) < PositionOf(pushed, subs[k])

\* The configuration iterates the exact rule on /subdir/file.txt first, and
\* under localhost the root was pushed, then the two prefix rules in their
\* order, then the exact rule.
C18_Witness ==
    /\ IsSome(handlers)
    /\ VHosts[1].hosts = <<"localhost", "127.0.0.1">>
    /\ VHosts[1].subpaths = <<FileStripRule, SubsubRule, SubdirRule>>
    /\ Len(PushedFor("localhost")) = 4
    /\ [p \in 1..4 |-> PushedFor("localhost")[p].value.handler.name]
           = <<"local", "subsub", "subdir", "file_strip">>

\* C19: only the entries of prefix rules with strip_prefix set carry a
\* strip marker: the entry of an exact rule carries none, whatever its
\* configuration says, a root entry carries none, and a request matched by
\* the entry of an exact rule keeps its URI.
C19_Original ==
    IsSome(handlers) =>
        /\ \A i \in 1..Len(Table) :
               /\ Table[i].prefix = None => Table[i].value.strip = None
               /\ Table[i].path = <<>> => Table[i].value.strip = None
        /\ \A i \in 1..Len(VHosts) : \A host \in PushNames(i) :
               \A j \in 1..Len(VHosts[i].subpaths) :
                   LET sp == VHosts[i].subpaths[j]
                       e == PushedFor(host)[PositionOf(PushedFor(host), sp)]
                   IN IsSome(e.value.strip)
                          <=> (sp.strip_prefix /\ ~sp.rule.exact)
        /\ (Hit /\ Table[MatchedIndex + 1].prefix = None) =>
               session.uri = session.original_uri

\* C20: the URI of a request differs from the URI it arrived with only after
\* a selection whose matched entry carries a strip marker; before the
\* selection, after a selection that found nothing and after one whose entry
\* carries no marker the URI is the one the request arrived with.  The query
\* and the authority of the URI are never changed.
C20_UriFrame ==
    IsSome(handlers) =>
        /\ session.uri.query = session.original_uri.query
        /\ session.uri.authority = session.original_uri.authority
        /\ ~Ran => session.uri = session.original_uri
        /\ Miss => session.uri = session.original_uri
        /\ (Hit /\ Unwrap(Matched).value.strip = None) =>
               session.uri = session.original_uri
        /\ session.uri # session.original_uri =>
               Hit /\ IsSome(Unwrap(Matched).value.strip)

\* /subdir/subsub/xyz?abc was served by the rule /subdir/subsub/*, the longer
\* match, which has no strip marker while /subdir/* has one: the URI is the
\* one the request arrived with.
C20_Witness ==
    /\ Hit
    /\ OriginalPath = <<"/", "s", "/", "b", "/", "x">>
    /\ session.original_uri.query = Some(<<"a">>)
    /\ calls = <<Call("request_filter", TryInto(SubsubRule.config).value, TRUE)>>
    /\ Unwrap(Matched).value.strip = None
    /\ \E i \in 1..Len(Table) :
           /\ Table[i].host = ReqHost
           /\ Table[i].path = <<<<"s">>>>
           /\ IsSome(Table[i].value.strip)
    /\ session.uri = session.original_uri

-----------------------------------------------------------------------------
(* Host names *)

\* The virtual hosts that list an empty host name.
ListsEmptyName == {i \in 1..Len(VHosts) : "" \in SeqToSet(VHosts[i].hosts)}

\* C21: an empty host name listed by a virtual host is dropped and
\* compilation succeeds: the table has entries under the empty host name
\* exactly when a virtual host is marked default, they are all the first
\* default virtual host's, and a request of an unlisted host is served by the
\* default virtual host when there is one and by none otherwise, never by a
\* virtual host for its listing the empty name.
C21_EmptyNameDropped ==
    FailingConversions = {} =>
        /\ IsSome(handlers)
        /\ error = None
        /\ EntriesOf("") # {} <=> DefaultVHosts # {}
        /\ \A i \in EntriesOf("") :
               Table[i].value.handler.name \in HandlerNames(VHosts[FirstDefault])
        /\ (Ran /\ Owners(ReqHost) = {}) =>
               IF DefaultVHosts = {}
               THEN Miss /\ calls = <<>> /\ result = Some("Unhandled")
               ELSE /\ calls # <<>>
                    /\ \A k \in 1..Len(calls) :
                           calls[k].handler \in HandlerNames(VHosts[FirstDefault])

\* example.com lists an empty name, no virtual host is default: a request
\* without a host found no entry.
C21_Witness ==
    /\ ListsEmptyName # {}
    /\ DefaultVHosts = {}
    /\ IsSome(handlers)
    /\ EntriesOf("") = {}
    /\ Ran
    /\ ReqHost = ""
    /\ Miss
    /\ pc = "response_filter"
    /\ calls = <<>>

\* C22: with a default virtual host configured, a request whose host is a
\* name of another virtual host finds an entry under its own host name on
\* every path, and every handler called for it is that virtual host's, never
\* one of the default virtual host; when its virtual host has no sub-path
\* rules the entry is the root entry and the request keeps its URI.
C22_HostBeforeDefault ==
    (IsSome(handlers) /\ Ran /\ DefaultVHosts # {} /\ Owners(ReqHost) # {}
        /\ FirstDefault \notin Owners(ReqHost)) =>
        /\ Hit
        /\ Table[MatchedIndex + 1].host = ReqHost
        /\ calls # <<>>
        /\ \A k \in 1..Len(calls) : \A i \in Owners(ReqHost) :
               /\ calls[k].handler \in HandlerNames(VHosts[i])
               /\ calls[k].handler \notin HandlerNames(VHosts[FirstDefault])
        /\ \A i \in Owners(ReqHost) :
               VHosts[i].subpaths = <<>> =>
                   /\ Table[MatchedIndex + 1].path = <<>>
                   /\ session.uri = session.original_uri

\* localhost is the default virtual host and has the rule /subdir/*, which
\* the entries of the empty name answer /subdir/xyz with; the request for it
\* of example.com was served by example.com's root entry, its URI kept.
C22_Witness ==
    /\ Hit
    /\ ReqHost = "example.com"
    /\ OriginalPath = <<"/", "s", "/", "x">>
    /\ DefaultVHosts # {}
    /\ VHosts[FirstDefault].hosts = <<"localhost", "127.0.0.1">>
    /\ IsSome(LookupHost(Table, "", Segments(OriginalPath)))
    /\ Unwrap(LookupHost(Table, "", Segments(OriginalPath))).value.handler.name
           = SubdirRule.config.name
    /\ calls = <<Call("request_filter", TryInto(ExampleEmpty.config).value, TRUE)>>
    /\ session.uri = session.original_uri

-----------------------------------------------------------------------------
(* The carriers of the selection *)

\* C23: a step of upstream_peer, response_filter or logging leaves the index
\* of the context, the IndexEntry token of the session and the URI of the
\* request as they were, whether it recovers a handler or not.
C23_LaterPhasesKeepCarriers ==
    [][pc' \in {"upstream_peer", "response_filter", "logging"} =>
           /\ ctx'.index = ctx.index
           /\ session'.extensions = session.extensions
           /\ session'.uri = session.uri
           /\ session'.original_uri = session.original_uri]_vars

\* After a selection that rewrote the URI the three later phases ran, each
\* with the handler selected, and index, token and URI are the selection's.
C23_Witness ==
    /\ Hit
    /\ pc = "logging"
    /\ Len(calls) = 4
    /\ ctx.index = Some(MatchedIndex)
    /\ session.extensions = Some(MatchedIndex)
    /\ IsSome(Unwrap(Matched).value.strip)
    /\ session.uri # session.original_uri
    /\ session.uri = UriAfter(Unwrap(Matched).value.strip)

\* The raw remainder of path after its leading segments segs: what follows
\* the last character of the last of them, "/" if nothing does.
RemainderOf(path, segs) ==
    LET k == CHOOSE n \in 0..Len(path) :
                 /\ Segments(SubSeq(path, 1, n)) = segs
                 /\ \A m \in 0..(n - 1) : Segments(SubSeq(path, 1, m)) # segs
        rest == Drop(path, k)
    IN IF rest = <<>> THEN <<SEPARATOR>> ELSE rest

\* The index, the token and the URI of the request r are those of the entry
\* its lookup found.
CarriersInPlace(r) ==
    LET q == inflight[r]
        found == Unwrap(MatchedOf(r))
    IN /\ q.ctx.index = Some(found.index)
       /\ q.session.extensions = Some(found.index)
       /\ q.session.uri.query = q.session.original_uri.query
       /\ q.session.uri.path =
              IF IsSome(found.value.strip)
              THEN RemainderOf(q.session.original_uri.path,
                               Unwrap(found.value.strip))
              ELSE q.session.original_uri.path

\* C24: when request_filter has found an entry, the context index, the
\* session token and the rewritten URI are in place before the matched
\* handler is called, and they stay in place after it returned, whatever it
\* returned: its result, Unhandled and an error included, is what
\* request_filter returns, and every later phase that delegates does so to
\* this handler.
C24_SelectionStays ==
    \A r \in DOMAIN inflight :
        LET q == inflight[r] IN
        /\ q.pc = "await" =>
               /\ IsSome(MatchedOf(r))
               /\ q.calls = <<>>
               /\ q.result = None
               /\ CarriersInPlace(r)
        /\ (IsSome(q.result) /\ IsSome(MatchedOf(r))) =>
               /\ CarriersInPlace(r)
               /\ q.calls # <<>>
               /\ q.calls[1] = Call("request_filter",
                                    Unwrap(MatchedOf(r)).value.handler, TRUE)
               /\ q.result = Some(Unwrap(MatchedOf(r)).value.handler.result)
               /\ \A k \in 1..Len(q.calls) :
                      q.calls[k].handler = Unwrap(MatchedOf(r)).value.handler.name
               /\ q.pc \in {"upstream_peer", "response_filter", "logging"} =>
                      q.calls[Len(q.calls)].phase = q.pc

\* /xyz/subdir?abc of localhost was rewritten to /subdir?abc, the matched
\* handler failed, and upstream_peer, response_filter and logging
\* delegated to it all the same.
C24_Witness ==
    /\ 1 \in DOMAIN inflight
    /\ inflight[1].session.original_uri.path = <<"/", "x", "/", "s">>
    /\ inflight[1].session.uri =
           MakeUri(None, <<"/", "s">>, Some(<<"a">>))
    /\ inflight[1].result = Some("Error")
    /\ inflight[1].pc = "logging"
    /\ IsSome(inflight[1].ctx.index)
    /\ inflight[1].session.extensions = inflight[1].ctx.index
    /\ [k \in 1..Len(inflight[1].calls) |-> inflight[1].calls[k].phase]
           = <<"request_filter", "upstream_peer", "response_filter", "logging">>
    /\ \A k \in 1..Len(inflight[1].calls) :
           inflight[1].calls[k].handler = "failing"

-----------------------------------------------------------------------------
(* Two instances on one session *)

\* C25: when both instances have selected an entry for the request, the
\* token that the response_filter of an instance reads, called without a
\* context, is the index this instance stored, and the handler it delegates
\* to is the one of the entry this instance selected.
C25_Original ==
    (IsSome(pair.ctx[1].index) /\ IsSome(pair.ctx[2].index)) =>
        \A i \in {1, 2} :
            IsSome(pair.read[i]) =>
                /\ pair.read[i] = pair.ctx[i].index
                /\ pair.shaped[i] =
                       Some(TableOf(i)[Unwrap(pair.ctx[i].index) + 1]
                                .value.handler.name)

====
